---- MODULE Spec2Model ----
(***************************************************************************)
(* QCSuper: the raw USB input (src/inputs/usb_modem_pyusb.py) and the      *)
(* start-up code that selects and drives an input (src/main.py).           *)
(*                                                                         *)
(* Spec      one session on UsbModemPyusbConnector: __init__, the read     *)
(*           loop, send_request from the modules, and main()'s             *)
(*           try/finally around run().                                     *)
(* SpecMain  main(): the choice of the input class from the arguments,    *)
(*           the registration of the modules, run() seen from outside,    *)
(*           dispose() and the finalization of the connector.             *)
(* SpecEcho  one request written by send_request and read back by the     *)
(*           read loop.                                                    *)
(*                                                                         *)
(* The operations of HdlcMixin and BaseInput (hdlc_encapsulate,            *)
(* hdlc_decapsulate, run, dispose, dispatch) follow the design             *)
(* specification.                                                          *)
(***************************************************************************)
EXTENDS Integers, Sequences, FiniteSets, TLC

\* ------------------------------------------------------------------ bounds
MaxStream == 5      \* bytes the transport delivers in one behaviour
MaxChunkLen == 2    \* bytes one read of the endpoint returns at most
MaxSends == 1       \* send_request calls in one behaviour
MaxPayloadLen == 2  \* bytes of the payload of a request that is read back

\* ------------------------------------------------------- framing constants
TRAILER_CHAR == 126
ESCAPE_CHAR == 125
ESCAPE_MASK == 32

\* The bytes the modelled transport can deliver: an ordinary byte, the byte
\* that follows the escape byte in an escaped trailer, the escape byte and
\* the trailer byte.
WireBytes == {1, TRAILER_CHAR - ESCAPE_MASK, ESCAPE_CHAR, TRAILER_CHAR}

\* --------------------------------------------------------------- sequences
EndsWith(s, b) == Len(s) > 0 /\ s[Len(s)] = b

\* b XOR ESCAPE_MASK, for a byte b
XorMask(b) == IF (b \div ESCAPE_MASK) % 2 = 1 THEN b - ESCAPE_MASK ELSE b + ESCAPE_MASK

\* ------------------------------------------------------------------ Framer
NeedsEscape(b) == b = TRAILER_CHAR \/ b = ESCAPE_CHAR

RECURSIVE Escape(_)
Escape(s) ==
    IF s = <<>> THEN <<>>
    ELSE IF NeedsEscape(Head(s))
         THEN <<ESCAPE_CHAR, XorMask(Head(s))>> \o Escape(Tail(s))
         ELSE <<Head(s)>> \o Escape(Tail(s))

\* encode: the escaped message followed by the trailer byte
hdlc_encapsulate(message) == Escape(message) \o <<TRAILER_CHAR>>

\* An escape byte is well formed when the byte after it is an escaped
\* trailer or an escaped escape byte.
RECURSIVE WellFormedEscapes(_)
WellFormedEscapes(s) ==
    IF s = <<>> THEN TRUE
    ELSE IF Head(s) = ESCAPE_CHAR
         THEN /\ Len(s) >= 2
              /\ NeedsEscape(XorMask(s[2]))
              /\ WellFormedEscapes(Tail(Tail(s)))
         ELSE WellFormedEscapes(Tail(s))

\* Best-effort unescaping: every well-formed escape pair is replaced by the
\* byte it stands for, every other byte is kept.
RECURSIVE Unescape(_)
Unescape(s) ==
    IF s = <<>> THEN <<>>
    ELSE IF Head(s) = ESCAPE_CHAR /\ Len(s) >= 2 /\ NeedsEscape(XorMask(s[2]))
         THEN <<XorMask(s[2])>> \o Unescape(Tail(Tail(s)))
         ELSE <<Head(s)>> \o Unescape(Tail(s))

\* The bytes of a buffer that precede its final byte (the trailer).
FrameBody(payload) == SubSeq(payload, 1, Len(payload) - 1)

\* The validation decode always performs.
FrameValid(payload) ==
    /\ WellFormedEscapes(FrameBody(payload))
    /\ Unescape(FrameBody(payload)) # <<>>

\* decode: InvalidFrameError is raised only when the caller asks for it;
\* otherwise the best-effort message is returned.
hdlc_decapsulate(payload, raise_on_invalid_frame) ==
    [raised  |-> raise_on_invalid_frame /\ ~FrameValid(payload),
     message |-> Unescape(FrameBody(payload))]

\* The packet handed to on_packet: the first byte of the message is the
\* type, the rest the payload.
DecodedPacket(message) == [type |-> Head(message), payload |-> Tail(message)]

\* ------------------------------------------------------------------- state
VARIABLES
    args,                   \* main: the parsed command line
    main_pc,                \* main: position in main()
    diag_input,             \* main: class of the object bound to diag_input
    modules,                \* diag_input.modules, in registration order
    dev_intf,               \* the resolved PyusbDevInterface
    status,                 \* __init__: what is_kernel_driver_active did
    exit_cause,             \* why exit() was called, "none" while running
    dispose_calls,          \* number of diag_input.dispose() calls
    self_dev_intf,          \* self.dev_intf is set on the connector
    releases,               \* number of releases of the USB device made
    finalized,              \* __del__ has run on the connector
    constructed,            \* UsbModemPyusbConnector.__init__ has returned
    received_first_packet,  \* self.received_first_packet
    pc,                     \* read_loop: position
    raw_payload,            \* read_loop: the accumulation buffer
    unframed_message,       \* read_loop: result of hdlc_decapsulate
    stream,                 \* every byte read_endpoint.read has returned
    read_failures,          \* number of reads that ended in the except clause
    data_read_empty,        \* read_loop: data_read holds an empty result
    first_chunk,            \* the first chunk read_endpoint.read returned
    decode_calls,           \* every hdlc_decapsulate call and its outcome
    on_packet_calls,        \* every packet handed to the registered module
    requests,               \* the arguments of every send_request call
    written,                \* every frame write_endpoint.write has accepted
    warnings                \* number of "Can't write" warnings printed

vars == <<args, main_pc, diag_input, modules, dev_intf, status, exit_cause,
          dispose_calls, self_dev_intf, releases, finalized,
          constructed, received_first_packet, pc, raw_payload,
          unframed_message, stream, read_failures, data_read_empty,
          first_chunk, decode_calls, on_packet_calls, requests, written, warnings>>

device_vars == <<self_dev_intf, releases, finalized>>
main_vars == <<args, main_pc, diag_input, modules, dev_intf, status,
              exit_cause, dispose_calls, self_dev_intf, releases, finalized>>
reader_vars == <<pc, raw_payload, unframed_message, stream, read_failures,
                 data_read_empty,
                 first_chunk, decode_calls, on_packet_calls>>
writer_vars == <<requests, written, warnings>>

\* What is_kernel_driver_active does: it returns true, returns false or
\* raises.
KernelDriverStatus == {"active", "inactive", "error"}

\* The chunks one read of the endpoint can return.
Chunks == UNION {[1..n -> WireBytes] : n \in 1..MaxChunkLen}

\* The arguments modules give to send_request.
SendTypes == {1}
SendPayloads == {<<TRAILER_CHAR>>}

\* --------------------------------------------- UsbModemPyusbConnector
\* __init__, up to the end of the try clause: self.dev_intf is set, then
\* is_kernel_driver_active returns or raises; on an interface without a
\* device the call can only raise.
connector_query(outcome) ==
    /\ main_pc = "construct"
    /\ dev_intf.device \/ outcome = "error"
    /\ main_pc' = "init"
    /\ self_dev_intf' = TRUE
    /\ status' = outcome
    /\ UNCHANGED <<releases, finalized>>
    /\ UNCHANGED <<args, diag_input, modules, dev_intf, exit_cause,
                   dispose_calls>>
    /\ UNCHANGED <<constructed, received_first_packet>>
    /\ UNCHANGED reader_vars
    /\ UNCHANGED writer_vars

\* As ExitsOnStatus, with the result of the query ignored.
ExitsOnStatusNever(outcome) == FALSE

\* The else clause of the try: does __init__ call exit()?
ExitsOnStatus(outcome) == outcome = "active"

\* __init__, after the query: exit() when the kernel driver holds the
\* interface; otherwise the flag is initialised and __init__ returns, which
\* ends the life of its local variable status.
connector_init ==
    /\ main_pc = "init"
    /\ IF ExitsOnStatus(status)
       THEN /\ main_pc' = "exited"
            /\ exit_cause' = "kernel_driver"
            /\ UNCHANGED <<status, constructed, received_first_packet>>
       ELSE /\ main_pc' = "modules"
            /\ constructed' = TRUE
            /\ received_first_packet' = FALSE
            /\ status' = "none"
            /\ UNCHANGED exit_cause
    /\ UNCHANGED <<args, diag_input, modules, dev_intf, dispose_calls>>
    /\ UNCHANGED reader_vars
    /\ UNCHANGED writer_vars
    /\ UNCHANGED device_vars

\* The test __del__ makes before it disposes of the device:
\* self.dev_intf and self.dev_intf.device.
DelGuard(bound, device) == bound /\ device

\* __del__: the connector is finalized once main() is left and nothing
\* refers to it any more, whether or not __init__ had returned.  When the
\* test holds dispose_resources is called on the device, whatever was done
\* to the device before.
connector_del ==
    /\ main_pc = "exited"
    /\ diag_input = "UsbModemPyusbConnector"
    /\ self_dev_intf
    /\ ~finalized
    /\ finalized' = TRUE
    /\ IF DelGuard(self_dev_intf, dev_intf.device)
       THEN releases' = releases + 1
       ELSE UNCHANGED releases
    /\ UNCHANGED <<args, main_pc, diag_input, modules, dev_intf, status,
                   exit_cause, dispose_calls, self_dev_intf>>
    /\ UNCHANGED <<constructed, received_first_packet>>
    /\ UNCHANGED reader_vars
    /\ UNCHANGED writer_vars

\* As AfterWriteError, with the USBError left to propagate out of run().
AfterWriteErrorUncaught(at) == "finally"

\* Where main() is after write() has raised USBError inside send_request:
\* the error is caught, main() stays where it is.
AfterWriteError(at) == at

\* As RequestMessage, with the type byte left out.
RequestMessageNoType(packet_type, packet_payload) == packet_payload

\* As RequestMessage, with the type byte put last.
RequestMessageTypeLast(packet_type, packet_payload) ==
    packet_payload \o <<packet_type>>

\* The message send_request frames: bytes([packet_type]) + packet_payload.
RequestMessage(packet_type, packet_payload) == <<packet_type>> \o packet_payload

\* As send_request, with the frame kept in the buffer read_loop uses.
send_request_shared_buffer(packet_type, packet_payload, write_ok) ==
    /\ constructed
    /\ main_pc \in {"modules", "run"}
    /\ Len(written) + warnings < MaxSends
    /\ requests' = Append(requests,
            [type |-> packet_type, payload |-> packet_payload,
             reentrant |-> pc = "dispatch"])
    /\ IF write_ok
       THEN /\ written' = Append(written,
                    hdlc_encapsulate(RequestMessage(packet_type, packet_payload)))
            /\ UNCHANGED <<warnings, main_pc>>
       ELSE /\ warnings' = warnings + 1
            /\ main_pc' = AfterWriteError(main_pc)
            /\ UNCHANGED written
    /\ UNCHANGED <<args, diag_input, modules, dev_intf, status, exit_cause,
                   dispose_calls>>
    /\ UNCHANGED <<constructed, received_first_packet>>
    /\ raw_payload' = hdlc_encapsulate(RequestMessage(packet_type, packet_payload))
    /\ UNCHANGED <<pc, unframed_message, stream, read_failures, data_read_empty,
                   first_chunk,
                   decode_calls, on_packet_calls>>
    /\ UNCHANGED device_vars

\* As send_request, with a write that succeeds taken as synchronisation.
send_request_synchronizing(packet_type, packet_payload, write_ok) ==
    /\ constructed
    /\ main_pc \in {"modules", "run"}
    /\ Len(written) + warnings < MaxSends
    /\ requests' = Append(requests,
            [type |-> packet_type, payload |-> packet_payload,
             reentrant |-> pc = "dispatch"])
    /\ IF write_ok
       THEN /\ written' = Append(written,
                    hdlc_encapsulate(RequestMessage(packet_type, packet_payload)))
            /\ UNCHANGED <<warnings, main_pc>>
       ELSE /\ warnings' = warnings + 1
            /\ main_pc' = AfterWriteError(main_pc)
            /\ UNCHANGED written
    /\ UNCHANGED <<args, diag_input, modules, dev_intf, status, exit_cause,
                   dispose_calls>>
    /\ received_first_packet' = (received_first_packet \/ write_ok)
    /\ UNCHANGED constructed
    /\ UNCHANGED reader_vars
    /\ UNCHANGED device_vars

\* send_request, called by a module while the input is alive: from another
\* thread at any point of read_loop, or from on_packet (reentrant).
send_request(packet_type, packet_payload, write_ok) ==
    /\ constructed
    /\ main_pc \in {"modules", "run"}
    /\ Len(written) + warnings < MaxSends
    /\ requests' = Append(requests,
            [type |-> packet_type, payload |-> packet_payload,
             reentrant |-> pc = "dispatch"])
    /\ IF write_ok
       THEN /\ written' = Append(written,
                    hdlc_encapsulate(RequestMessage(packet_type, packet_payload)))
            /\ UNCHANGED <<warnings, main_pc>>
       ELSE /\ warnings' = warnings + 1
            /\ main_pc' = AfterWriteError(main_pc)
            /\ UNCHANGED written
    /\ UNCHANGED <<args, diag_input, modules, dev_intf, status, exit_cause,
                   dispose_calls>>
    /\ UNCHANGED <<constructed, received_first_packet>>
    /\ UNCHANGED reader_vars
    /\ UNCHANGED device_vars

\* As AfterReadFailure, with the exception swallowed and the read retried.
AfterReadFailureRetry(at) == at

\* Where main() is after a read has failed: exit() unwinds run() into the
\* finally clause of main().
AfterReadFailure(at) == "finally"

\* As Accumulate, with = in the place of +=.
AccumulateReplaced(buffer, data_read) == data_read

\* raw_payload += data_read
Accumulate(buffer, data_read) == buffer \o data_read

\* read_loop, inner while: one more chunk is appended to the buffer.
read_loop_read(data_read) ==
    /\ main_pc = "run"
    /\ pc = "accumulate"
    /\ ~EndsWith(raw_payload, TRAILER_CHAR)
    /\ Len(stream) + Len(data_read) <= MaxStream
    /\ raw_payload' = Accumulate(raw_payload, data_read)
    /\ stream' = stream \o data_read
    /\ first_chunk' = IF stream = <<>> THEN data_read ELSE first_chunk
    /\ data_read_empty' = FALSE
    /\ UNCHANGED read_failures
    /\ UNCHANGED main_vars
    /\ UNCHANGED <<constructed, received_first_packet>>
    /\ UNCHANGED <<pc, unframed_message, decode_calls, on_packet_calls>>
    /\ UNCHANGED writer_vars

\* read_loop, inner while: the read raises, or returns nothing and the
\* assert statement fails; either way the except clause calls exit().
read_loop_read_failed ==
    /\ main_pc = "run"
    /\ pc = "accumulate"
    /\ ~EndsWith(raw_payload, TRAILER_CHAR)
    /\ main_pc' = AfterReadFailure(main_pc)
    /\ pc' = IF main_pc' = "run" THEN pc ELSE "exited"
    /\ exit_cause' = IF main_pc' = "run" THEN exit_cause ELSE "read_failed"
    /\ read_failures' = read_failures + 1
    /\ UNCHANGED data_read_empty
    /\ UNCHANGED <<args, diag_input, modules, dev_intf, status, dispose_calls>>
    /\ UNCHANGED <<constructed, received_first_packet>>
    /\ UNCHANGED <<raw_payload, unframed_message, stream, first_chunk,
                   decode_calls, on_packet_calls>>
    /\ UNCHANGED writer_vars
    /\ UNCHANGED device_vars

\* read_loop, inner while: the read returns nothing and the interpreter
\* runs without assert statements (python -O): nothing is appended and the
\* loop reads again.
read_loop_read_nothing ==
    /\ main_pc = "run"
    /\ pc = "accumulate"
    /\ ~EndsWith(raw_payload, TRAILER_CHAR)
    /\ raw_payload' = Accumulate(raw_payload, <<>>)
    /\ data_read_empty' = TRUE
    /\ UNCHANGED main_vars
    /\ UNCHANGED <<constructed, received_first_packet>>
    /\ UNCHANGED <<pc, unframed_message, stream, read_failures, first_chunk,
                   decode_calls, on_packet_calls>>
    /\ UNCHANGED writer_vars

\* As IsUnavailable, with the buffer compared to the empty string.
IsUnavailableEmpty(buffer) == buffer = <<>>

\* The buffer that makes read_loop give up: the trailer byte alone.
IsUnavailable(buffer) == buffer = <<TRAILER_CHAR>>

\* read_loop: "The modem seems to be unavailable."
read_loop_unavailable ==
    /\ main_pc = "run"
    /\ pc = "accumulate"
    /\ EndsWith(raw_payload, TRAILER_CHAR)
    /\ IsUnavailable(raw_payload)
    /\ main_pc' = "finally"
    /\ pc' = "exited"
    /\ exit_cause' = "unavailable"
    /\ UNCHANGED <<args, diag_input, modules, dev_intf, status, dispose_calls>>
    /\ UNCHANGED <<constructed, received_first_packet>>
    /\ UNCHANGED <<raw_payload, unframed_message, stream, read_failures,
                   data_read_empty,
                   first_chunk, decode_calls, on_packet_calls>>
    /\ UNCHANGED writer_vars
    /\ UNCHANGED device_vars

\* As RaiseOnInvalidFrame, with the negation forgotten.
RaiseOnInvalidFrameInverted(flag) == flag

\* As RaiseOnInvalidFrame, always strict.
RaiseOnInvalidFrameAlways(flag) == TRUE

\* The raise_on_invalid_frame argument of the hdlc_decapsulate call.
RaiseOnInvalidFrame(flag) == ~flag

\* As FlagAfterDecapsulate, with the flag negated instead of set.
FlagAfterDecapsulateToggled(flag, raised) == ~flag

\* As FlagAfterDecapsulate, in an else clause instead of the finally clause.
FlagAfterDecapsulateOnSuccess(flag, raised) == flag \/ ~raised

\* The value the finally clause leaves in received_first_packet.
FlagAfterDecapsulate(flag, raised) == TRUE

\* As BufferAtLoopTop, with the assignment outside the outer loop.
BufferAtLoopTopKept(buffer) == buffer

\* raw_payload = b'' at the top of the outer loop, where continue and the
\* end of the loop body both lead.
BufferAtLoopTop(buffer) == <<>>

\* read_loop: the hdlc_decapsulate call, its except and its finally clause.
read_loop_decapsulate ==
    /\ main_pc = "run"
    /\ pc = "accumulate"
    /\ EndsWith(raw_payload, TRAILER_CHAR)
    /\ ~IsUnavailable(raw_payload)
    /\ LET strict == RaiseOnInvalidFrame(received_first_packet)
           result == hdlc_decapsulate(raw_payload, strict)
       IN  /\ decode_calls' = Append(decode_calls,
                   [payload  |-> raw_payload,
                    strict   |-> strict,
                    awaiting |-> ~received_first_packet,
                    raised   |-> result.raised])
           /\ received_first_packet' =
                   FlagAfterDecapsulate(received_first_packet, result.raised)
           /\ IF result.raised
              THEN /\ pc' = "accumulate"
                   /\ raw_payload' = BufferAtLoopTop(raw_payload)
                   /\ UNCHANGED unframed_message
              ELSE /\ pc' = "dispatch"
                   /\ unframed_message' = result.message
                   /\ UNCHANGED raw_payload
    /\ UNCHANGED main_vars
    /\ UNCHANGED <<constructed, stream, read_failures, data_read_empty,
                   first_chunk,
                   on_packet_calls>>
    /\ UNCHANGED writer_vars

\* read_loop: the message goes to the registered module, and the loop
\* starts over with an empty buffer.
dispatch_received_diag_packet ==
    /\ main_pc = "run"
    /\ pc = "dispatch"
    /\ on_packet_calls' = Append(on_packet_calls, DecodedPacket(unframed_message))
    /\ pc' = "accumulate"
    /\ raw_payload' = BufferAtLoopTop(raw_payload)
    /\ unframed_message' = <<>>
    /\ UNCHANGED main_vars
    /\ UNCHANGED <<constructed, received_first_packet, stream, read_failures,
                   data_read_empty,
                   first_chunk, decode_calls>>
    /\ UNCHANGED writer_vars

\* -------------------------------------------------------------------- main
\* The command lines main() tells apart when it chooses the input: the input
\* option given ("unset": an option whose value is empty), whether the
\* --adb-wsl2 path is a file, and what UsbModemArgParser makes of the
\* --usb-modem value.
InputArgs ==
    {[input |-> i, adb_path_ok |-> FALSE, usb_arg |-> "none"] :
        i \in {"dlf_read", "adb", "json_geo_read", "unset"}}
    \cup {[input |-> "adb_wsl2", adb_path_ok |-> ok, usb_arg |-> "none"] :
        ok \in BOOLEAN}
    \cup {[input |-> "usb_modem", adb_path_ok |-> FALSE, usb_arg |-> a] :
        a \in {"none", "pyserial_dev", "pyusb"}}

\* The module options, in the order parse_modules_args looks at them.
ModuleOrder == <<"MemoryDumper", "PcapDumper", "WiresharkLive", "JsonGeoDumper",
                 "DecodedSibsDumper", "InfoRetriever", "DlfDumper">>

ModuleNames == {ModuleOrder[i] : i \in 1..Len(ModuleOrder)}

\* The input part of the command line, the module options given, whether
\* the values of --start and --stop are hexadecimal numbers, --cli and
\* --efs-shell.
ArgsSet ==
    {[input |-> a.input, adb_path_ok |-> a.adb_path_ok, usb_arg |-> a.usb_arg,
      module_args |-> m, range_is_hex |-> h, cli |-> c, efs_shell |-> e] :
        a \in InputArgs, m \in SUBSET ModuleNames, h \in BOOLEAN,
        c \in BOOLEAN, e \in BOOLEAN}

\* No interface: usb_modem is None, or no device was looked up.
NoDevIntf == [present |-> FALSE, not_found_reason |-> FALSE,
              chardev_if_mounted |-> FALSE, device |-> FALSE]

\* The PyusbDevInterface objects the device finder can return.
DevIntfs == [present : {TRUE}, not_found_reason : BOOLEAN,
             chardev_if_mounted : BOOLEAN, device : BOOLEAN]

\* The connector main() builds for a found interface, --adb-wsl2 branch.
ConnectorForAdbWsl2(usb_modem) ==
    IF usb_modem.chardev_if_mounted THEN "UsbModemPyserialConnector"
    ELSE "UsbModemPyusbConnector"

\* As ConnectorForAdb, with the character device ignored.
ConnectorForAdbRawOnly(usb_modem) == "UsbModemPyusbConnector"

\* The connector main() builds for a found interface, --adb branch.
ConnectorForAdb(usb_modem) ==
    IF usb_modem.chardev_if_mounted THEN "UsbModemPyserialConnector"
    ELSE "UsbModemPyusbConnector"

\* The connector main() builds for a found interface, --usb-modem branch.
ConnectorForUsbModem(intf) ==
    IF intf.chardev_if_mounted THEN "UsbModemPyserialConnector"
    ELSE "UsbModemPyusbConnector"

\* main() goes on with the input it has bound: the raw USB connector is
\* constructed next, every other input is ready.
BindInput(class) ==
    /\ diag_input' = class
    /\ main_pc' = IF class = "UsbModemPyusbConnector" THEN "construct" ELSE "modules"
    /\ UNCHANGED exit_cause

main_exit(cause) ==
    /\ main_pc' = "exited"
    /\ exit_cause' = cause
    /\ UNCHANGED diag_input

\* main(): --dlf-read and --json-geo-read.
main_file_input ==
    /\ main_pc = "select_input"
    /\ args.input \in {"dlf_read", "json_geo_read"}
    /\ BindInput(IF args.input = "dlf_read" THEN "DlfReader" ELSE "JsonGeoReader")
    /\ UNCHANGED <<args, modules, dev_intf, status, dispose_calls>>
    /\ UNCHANGED <<constructed, received_first_packet>>
    /\ UNCHANGED reader_vars
    /\ UNCHANGED writer_vars
    /\ UNCHANGED device_vars

\* main(): --adb-wsl2; usb_modem is what AdbWsl2Connector found.
main_adb_wsl2(usb_modem) ==
    /\ main_pc = "select_input"
    /\ args.input = "adb_wsl2"
    /\ IF ~args.adb_path_ok
       THEN /\ main_exit("adb_wsl2_path")
            /\ UNCHANGED dev_intf
       ELSE /\ dev_intf' = usb_modem
            /\ IF usb_modem.present /\ ~usb_modem.not_found_reason
               THEN BindInput(ConnectorForAdbWsl2(usb_modem))
               ELSE BindInput("AdbWsl2Connector")
    /\ UNCHANGED <<args, modules, status, dispose_calls>>
    /\ UNCHANGED <<constructed, received_first_packet>>
    /\ UNCHANGED reader_vars
    /\ UNCHANGED writer_vars
    /\ UNCHANGED device_vars

\* main(): --adb; usb_modem is what AdbConnector found.
main_adb(usb_modem) ==
    /\ main_pc = "select_input"
    /\ args.input = "adb"
    /\ dev_intf' = usb_modem
    /\ IF usb_modem.present /\ ~usb_modem.not_found_reason
       THEN BindInput(ConnectorForAdb(usb_modem))
       ELSE BindInput("AdbConnector")
    /\ UNCHANGED <<args, modules, status, dispose_calls>>
    /\ UNCHANGED <<constructed, received_first_packet>>
    /\ UNCHANGED reader_vars
    /\ UNCHANGED writer_vars
    /\ UNCHANGED device_vars

\* As NotFoundIsFatal, with the reason ignored.
NotFoundIsFatalNever(intf) == FALSE

\* --usb-modem: does main() give up on the interface from_arg returned?
NotFoundIsFatal(intf) == intf.not_found_reason

\* main(): --usb-modem; intf is what PyusbDevInterface.from_arg returns.
main_usb_modem(intf) ==
    /\ main_pc = "select_input"
    /\ args.input = "usb_modem"
    /\ IF args.usb_arg = "none"
       THEN /\ main_exit("usb_modem_arg")
            /\ UNCHANGED dev_intf
       ELSE IF args.usb_arg = "pyserial_dev"
       THEN /\ BindInput("UsbModemPyserialConnector")
            /\ UNCHANGED dev_intf
       ELSE /\ dev_intf' = intf
            /\ IF NotFoundIsFatal(intf)
               THEN main_exit("not_found")
               ELSE BindInput(ConnectorForUsbModem(intf))
    /\ UNCHANGED <<args, modules, status, dispose_calls>>
    /\ UNCHANGED <<constructed, received_first_packet>>
    /\ UNCHANGED reader_vars
    /\ UNCHANGED writer_vars
    /\ UNCHANGED device_vars

\* main(): no input option has a value that counts as given.
main_no_input ==
    /\ main_pc = "select_input"
    /\ args.input = "unset"
    /\ main_exit("NotImplementedError")
    /\ UNCHANGED <<args, modules, dev_intf, status, dispose_calls>>
    /\ UNCHANGED <<constructed, received_first_packet>>
    /\ UNCHANGED reader_vars
    /\ UNCHANGED writer_vars
    /\ UNCHANGED device_vars

\* The ways run() comes to an end.
RunOutcomes == {"run_returned", "run_raised", "run_exited"}

\* run() comes to an end, by returning, raising or exit(): the view main()
\* has of the loop of any input.
run_ends(outcome) ==
    /\ main_pc = "run"
    /\ main_pc' = "finally"
    /\ exit_cause' = outcome
    /\ UNCHANGED <<args, diag_input, modules, dev_intf, status, dispose_calls>>
    /\ UNCHANGED <<constructed, received_first_packet>>
    /\ UNCHANGED reader_vars
    /\ UNCHANGED writer_vars
    /\ UNCHANGED device_vars

\* parse_modules_args: one module per option given, in the order of the
\* if statements.
parse_modules_args(given) ==
    SelectSeq(ModuleOrder, LAMBDA m : m \in given)

\* parse_modules_args: int(args.start, 16) or int(args.stop, 16) raises
\* ValueError, which happens when the memory dumper, the first module looked
\* at, is about to be constructed.
MemoryRangeRaises(a) == "MemoryDumper" \in a.module_args /\ ~a.range_is_hex

\* As CliConflict, asking for a module and --efs-shell at once.
CliConflictBoth(parsed, efs_shell) == parsed # <<>> /\ efs_shell

\* --cli: is it given together with another module?
CliConflict(parsed, efs_shell) == parsed # <<>> \/ efs_shell

\* --efs-shell: is it given together with another module?
EfsShellConflict(registered) == registered # <<>>

\* main(): the modules are registered, unless parse_modules_args raises and
\* main() is left with nothing registered; --cli and --efs-shell go with no
\* other module; with at least one module run() is entered, which for the
\* raw USB connector is read_loop.
main_run ==
    /\ main_pc = "modules"
    /\ LET parsed == parse_modules_args(args.module_args)
           with_cli == IF args.cli THEN Append(parsed, "CommandLineInterface")
                       ELSE parsed
           with_efs == IF args.efs_shell THEN Append(with_cli, "EfsShell")
                       ELSE with_cli
       IN  IF MemoryRangeRaises(args)
           THEN /\ main_pc' = "exited"
                /\ UNCHANGED <<modules, exit_cause, pc>>
           ELSE IF args.cli /\ CliConflict(parsed, args.efs_shell)
           THEN /\ modules' = parsed
                /\ main_pc' = "exited"
                /\ exit_cause' = "cli_and_module"
                /\ UNCHANGED pc
           ELSE IF args.efs_shell /\ EfsShellConflict(with_cli)
           THEN /\ modules' = with_cli
                /\ main_pc' = "exited"
                /\ exit_cause' = "efs_shell_and_module"
                /\ UNCHANGED pc
           ELSE IF with_efs = <<>>
           THEN /\ modules' = with_efs
                /\ main_pc' = "exited"
                /\ exit_cause' = "no_module"
                /\ UNCHANGED pc
           ELSE /\ modules' = with_efs
                /\ main_pc' = "run"
                /\ pc' = IF diag_input = "UsbModemPyusbConnector"
                         THEN "accumulate" ELSE pc
                /\ UNCHANGED exit_cause
    /\ UNCHANGED <<args, diag_input, dev_intf, status, dispose_calls>>
    /\ UNCHANGED <<constructed, received_first_packet>>
    /\ UNCHANGED <<raw_payload, unframed_message, stream, read_failures,
                   data_read_empty,
                   first_chunk, decode_calls, on_packet_calls>>
    /\ UNCHANGED writer_vars
    /\ UNCHANGED device_vars

\* dispose(): the input lets go of what it holds, once however often it is
\* called; for the raw USB connector that is the device, if there is one.
dispose ==
    /\ dispose_calls' = dispose_calls + 1
    /\ IF diag_input = "UsbModemPyusbConnector" /\ dev_intf.device
            /\ dispose_calls = 0
       THEN releases' = releases + 1
       ELSE UNCHANGED releases

\* main(): the finally clause around run().
main_finally ==
    /\ main_pc = "finally"
    /\ dispose
    /\ main_pc' = "exited"
    /\ UNCHANGED <<args, diag_input, modules, dev_intf, status, exit_cause>>
    /\ UNCHANGED <<self_dev_intf, finalized>>
    /\ UNCHANGED <<constructed, received_first_packet>>
    /\ UNCHANGED reader_vars
    /\ UNCHANGED writer_vars

\* ------------------------------------------------------------ one session
\* main() is about to construct UsbModemPyusbConnector(dev_intf): the
\* interface was found and is not exposed as a character device.
NothingDoneYet ==
    /\ modules = <<>>
    /\ status = "none"
    /\ exit_cause = "none"
    /\ dispose_calls = 0
    /\ self_dev_intf = FALSE
    /\ releases = 0
    /\ finalized = FALSE
    /\ constructed = FALSE
    /\ received_first_packet = FALSE
    /\ pc = "idle"
    /\ raw_payload = <<>>
    /\ unframed_message = <<>>
    /\ stream = <<>>
    /\ read_failures = 0
    /\ data_read_empty = FALSE
    /\ first_chunk = <<>>
    /\ decode_calls = <<>>
    /\ on_packet_calls = <<>>
    /\ requests = <<>>
    /\ written = <<>>
    /\ warnings = 0

Init ==
    /\ args = [input |-> "usb_modem", adb_path_ok |-> FALSE, usb_arg |-> "pyusb",
               module_args |-> {"InfoRetriever"}, range_is_hex |-> TRUE,
               cli |-> FALSE,
               efs_shell |-> FALSE]
    /\ main_pc = "construct"
    /\ diag_input = "UsbModemPyusbConnector"
    /\ dev_intf = [present |-> TRUE, not_found_reason |-> FALSE,
                   chardev_if_mounted |-> FALSE, device |-> TRUE]
    /\ NothingDoneYet

Next ==
    \/ \E outcome \in KernelDriverStatus : connector_query(outcome)
    \/ connector_init
    \/ main_run
    \/ \E t \in SendTypes, p \in SendPayloads, ok \in BOOLEAN : send_request(t, p, ok)
    \/ \E c \in Chunks : read_loop_read(c)
    \/ read_loop_read_failed
    \/ read_loop_read_nothing
    \/ read_loop_unavailable
    \/ read_loop_decapsulate
    \/ dispatch_received_diag_packet
    \/ main_finally

Spec == Init /\ [][Next]_vars

\* ------------------------------------------------------------------ main()
\* main() has parsed its arguments; run() is seen from outside.
InitMain ==
    /\ args \in ArgsSet
    /\ main_pc = "select_input"
    /\ diag_input = "none"
    /\ dev_intf = NoDevIntf
    /\ NothingDoneYet

NextMain ==
    \/ main_file_input
    \/ \E usb_modem \in DevIntfs \cup {NoDevIntf} : main_adb_wsl2(usb_modem)
    \/ \E usb_modem \in DevIntfs \cup {NoDevIntf} : main_adb(usb_modem)
    \/ \E intf \in DevIntfs : main_usb_modem(intf)
    \/ main_no_input
    \/ \E outcome \in KernelDriverStatus : connector_query(outcome)
    \/ connector_init
    \/ main_run
    \/ \E outcome \in RunOutcomes : run_ends(outcome)
    \/ main_finally
    \/ connector_del

SpecMain == InitMain /\ [][NextMain]_vars

\* ------------------------------------------------------- a request echoed
\* The payloads of the requests that are read back.
EchoPayloads == UNION {[1..n -> WireBytes] : n \in 0..MaxPayloadLen}

\* The connector is constructed, a module is registered and read_loop has
\* started; nothing has been read or written.
InitEcho ==
    /\ args = [input |-> "usb_modem", adb_path_ok |-> FALSE, usb_arg |-> "pyusb",
               module_args |-> {"InfoRetriever"}, range_is_hex |-> TRUE,
               cli |-> FALSE,
               efs_shell |-> FALSE]
    /\ main_pc = "run"
    /\ diag_input = "UsbModemPyusbConnector"
    /\ modules = <<"InfoRetriever">>
    /\ dev_intf = [present |-> TRUE, not_found_reason |-> FALSE,
                   chardev_if_mounted |-> FALSE, device |-> TRUE]
    /\ status = "none"
    /\ exit_cause = "none"
    /\ dispose_calls = 0
    /\ self_dev_intf = TRUE
    /\ releases = 0
    /\ finalized = FALSE
    /\ constructed = TRUE
    /\ received_first_packet = FALSE
    /\ pc = "accumulate"
    /\ raw_payload = <<>>
    /\ unframed_message = <<>>
    /\ stream = <<>>
    /\ read_failures = 0
    /\ data_read_empty = FALSE
    /\ first_chunk = <<>>
    /\ decode_calls = <<>>
    /\ on_packet_calls = <<>>
    /\ requests = <<>>
    /\ written = <<>>
    /\ warnings = 0

\* One request is written, and the device answers with the very frame it
\* was sent, in one read.
NextEcho ==
    \/ \E t \in WireBytes, p \in EchoPayloads :
            requests = <<>> /\ send_request(t, p, TRUE)
    \/ \E i \in 1..Len(written) : stream = <<>> /\ read_loop_read(written[i])
    \/ read_loop_decapsulate
    \/ dispatch_received_diag_packet

SpecEcho == InitEcho /\ [][NextEcho]_vars

\* ================================================================== claims
\* read_loop is at the top of its outer loop: every byte read so far has
\* been handled.
Quiescent == main_pc = "run" /\ pc = "accumulate" /\ raw_payload = <<>>

\* The hdlc_decapsulate calls that raised, and those that returned.
Skipped == SelectSeq(decode_calls, LAMBDA c : c.raised)
Returned == SelectSeq(decode_calls, LAMBDA c : ~c.raised)

\* The packet a buffer decodes to.
PacketOf(buffer) == DecodedPacket(Unescape(FrameBody(buffer)))

\* Every message that has been returned by hdlc_decapsulate was dispatched
\* as it was returned, in order; the last one may still be on its way.
DispatchedAsReturned ==
    /\ Len(on_packet_calls) = Len(Returned) - (IF pc = "dispatch" THEN 1 ELSE 0)
    /\ \A k \in 1..Len(on_packet_calls) :
            on_packet_calls[k] = PacketOf(Returned[k].payload)

\* The bytes handed to hdlc_decapsulate so far, in order.
RECURSIVE DecodedBytes(_)
DecodedBytes(calls) ==
    IF calls = <<>> THEN <<>> ELSE Head(calls).payload \o DecodedBytes(Tail(calls))

\* A well-formed encoded frame: the encoding of a message of at least the
\* type byte.
WellFormedFrame(f) ==
    /\ Len(f) >= 2
    /\ Unescape(FrameBody(f)) # <<>>
    /\ f = hdlc_encapsulate(Unescape(FrameBody(f)))

\* The stream cut after every trailer byte.
RECURSIVE UpToTrailer(_)
UpToTrailer(s) ==
    IF s = <<>> THEN <<>>
    ELSE IF Head(s) = TRAILER_CHAR THEN <<TRAILER_CHAR>>
    ELSE <<Head(s)>> \o UpToTrailer(Tail(s))

RECURSIVE Frames(_)
Frames(s) ==
    IF s = <<>> THEN <<>>
    ELSE LET f == UpToTrailer(s)
         IN  <<f>> \o Frames(SubSeq(s, Len(f) + 1, Len(s)))

\* The stream is a sequence of well-formed encoded frames.
WellFormedStream(s) ==
    \A i \in 1..Len(Frames(s)) : WellFormedFrame(Frames(s)[i])

\* C1: once received_first_packet is True, no step of the session (read,
\* decode, dispatch, send_request, exit) makes it False again.
C1_StreamingIsNeverLeft ==
    [][received_first_packet => received_first_packet']_vars

\* C1 witness: the session is streaming, a later decode has been made and a
\* send_request has been issued.
C1_Witness ==
    /\ received_first_packet
    /\ Len(decode_calls) >= 2
    /\ Len(written) + warnings >= 1

\* C2: a constructed session is awaiting its first frame exactly as long as
\* hdlc_decapsulate has not been called; after the first call, whether it
\* returned or raised InvalidFrameError, the session is streaming.
C2_StreamingAfterFirstAttempt ==
    /\ (constructed /\ decode_calls = <<>>) => ~received_first_packet
    /\ decode_calls # <<>> => received_first_packet

\* C2 witness: the first decode attempt raised, and the session is streaming.
C2_Witness ==
    /\ Len(decode_calls) = 1
    /\ decode_calls[1].raised
    /\ received_first_packet

\* What follows the first chunk in the stream.
AfterFirstChunk == SubSeq(stream, Len(first_chunk) + 1, Len(stream))

\* C3 as claimed: whenever the first chunk is not a well-formed frame and
\* is followed by one well-formed frame, read_loop skips exactly once and
\* then dispatches exactly the packet of that frame.
C3_GarbledThenFrame ==
    (/\ Quiescent
     /\ first_chunk # <<>>
     /\ ~WellFormedFrame(first_chunk)
     /\ WellFormedFrame(AfterFirstChunk))
    => /\ Len(decode_calls) = 2
       /\ decode_calls[1].raised
       /\ on_packet_calls = <<PacketOf(AfterFirstChunk)>>

\* C3 amended: when the first chunk ends with the trailer byte, is more than
\* the trailer byte alone and is rejected by the strict decode, and one
\* well-formed frame follows it, read_loop skips exactly once (no on_packet
\* call) and then dispatches exactly the packet of that frame.
C3_RejectedBufferThenFrame ==
    (/\ Quiescent
     /\ EndsWith(first_chunk, TRAILER_CHAR)
     /\ ~IsUnavailable(first_chunk)
     /\ ~FrameValid(first_chunk)
     /\ WellFormedFrame(AfterFirstChunk))
    => /\ Len(decode_calls) = 2
       /\ decode_calls[1].raised
       /\ decode_calls[1].payload = first_chunk
       /\ ~decode_calls[2].raised
       /\ on_packet_calls = <<PacketOf(AfterFirstChunk)>>

\* C3 witness: a rejected first chunk, then a frame, both handled.
C3_Witness ==
    /\ Quiescent
    /\ EndsWith(first_chunk, TRAILER_CHAR)
    /\ ~FrameValid(first_chunk)
    /\ WellFormedFrame(AfterFirstChunk)
    /\ Len(Skipped) = 1
    /\ Len(on_packet_calls) = 1

\* C4: hdlc_decapsulate is called with raise_on_invalid_frame true exactly
\* when the session is awaiting its first frame; a call made while streaming
\* never raises, whatever the buffer, and every message returned is
\* dispatched as returned.
C4_StrictOnlyWhileAwaiting ==
    /\ \A i \in 1..Len(decode_calls) :
            /\ decode_calls[i].strict = decode_calls[i].awaiting
            /\ ~decode_calls[i].awaiting => ~decode_calls[i].raised
    /\ DispatchedAsReturned

\* C4 witness: while streaming, a corrupted buffer was decoded and its
\* best-effort packet dispatched, and the loop has read on.
C4_Witness ==
    /\ Len(decode_calls) >= 2
    /\ LET last == decode_calls[Len(decode_calls)]
       IN  /\ ~last.awaiting
           /\ ~FrameValid(last.payload)
           /\ Len(on_packet_calls) >= 1
           /\ on_packet_calls[Len(on_packet_calls)] = PacketOf(last.payload)
    /\ main_pc = "run"
    /\ pc = "accumulate"
    /\ raw_payload # <<>>

\* C5 as claimed: when the transport has delivered a sequence of well-formed
\* frames and all of it has been handled, on_packet has been called once per
\* frame, in order, with the type and payload of that frame.
C5_OncePerFrame ==
    (Quiescent /\ WellFormedStream(stream))
    => on_packet_calls = [i \in 1..Len(Frames(stream)) |-> PacketOf(Frames(stream)[i])]

\* C6: a buffer that is the trailer byte alone is never handed to
\* hdlc_decapsulate; read_loop exits on it with nothing read, decoded or
\* dispatched afterwards.
C6_LoneTrailerIsFatal ==
    /\ \A i \in 1..Len(decode_calls) : decode_calls[i].payload # <<TRAILER_CHAR>>
    /\ exit_cause = "unavailable" =>
            /\ pc = "exited"
            /\ main_pc \in {"finally", "exited"}
            /\ raw_payload = <<TRAILER_CHAR>>
            /\ stream = DecodedBytes(decode_calls) \o raw_payload
            /\ Len(on_packet_calls) = Len(Returned)

\* C6 witness: the session has ended on a lone trailer byte after it had
\* dispatched a packet.
C6_Witness ==
    /\ exit_cause = "unavailable"
    /\ main_pc = "exited"
    /\ Len(on_packet_calls) >= 1

\* C7, as stated: once a read has raised or has returned nothing,
\* read_loop has exited; the bytes accumulated for the unfinished buffer were
\* not decoded or dispatched, nothing was read or dispatched afterwards, and
\* when main() is through dispose() has been called.
C7_ReadFailureIsFatal ==
    (read_failures > 0 \/ data_read_empty) =>
        /\ read_failures = 1
        /\ exit_cause = "read_failed"
        /\ pc = "exited"
        /\ main_pc \in {"finally", "exited"}
        /\ ~EndsWith(raw_payload, TRAILER_CHAR)
        /\ stream = DecodedBytes(decode_calls) \o raw_payload
        /\ Len(on_packet_calls) = Len(Returned)
        /\ main_pc = "exited" => dispose_calls = 1

\* C8: the step in which a write fails prints one warning and changes
\* nothing else: main() and read_loop stay where they are.
C8_WriteFailureIsNotFatal ==
    [][warnings' # warnings =>
            /\ warnings' = warnings + 1
            /\ main_pc' = main_pc
            /\ exit_cause' = exit_cause
            /\ UNCHANGED reader_vars]_vars

\* C8 witness: a write has failed and read_loop is about to dispatch a
\* packet.
C8_Witness ==
    /\ warnings >= 1
    /\ main_pc = "run"
    /\ pc = "dispatch"

\* C9: whenever the interface main() has resolved has no not-found reason
\* and is exposed as a character device, the input is the serial connector
\* and the raw USB connector is not constructed.
C9_CharDevicePreferred ==
    (/\ dev_intf.present
     /\ ~dev_intf.not_found_reason
     /\ dev_intf.chardev_if_mounted)
    => /\ diag_input = "UsbModemPyserialConnector"
       /\ main_pc \notin {"construct", "init"}
       /\ ~constructed
       /\ status = "none"

\* C9 witness: --adb found an interface exposed as a character device, and
\* the loop of the serial connector has been entered.
C9_Witness ==
    /\ args.input = "adb"
    /\ dev_intf.present
    /\ dev_intf.chardev_if_mounted
    /\ ~dev_intf.not_found_reason
    /\ main_pc = "run"

\* C10: once is_kernel_driver_active has returned true, the only step is
\* exit() with the remediation message: __init__ does not complete, the flag
\* is not initialised, nothing is read or written.
C10_KernelDriverFailsFast ==
    [][status = "active" =>
            /\ main_pc' = "exited"
            /\ exit_cause' = "kernel_driver"
            /\ ~constructed'
            /\ UNCHANGED <<received_first_packet, dispose_calls>>
            /\ UNCHANGED reader_vars
            /\ UNCHANGED writer_vars]_vars

\* C10 witness: __init__ has called exit() for an active kernel driver.
C10_Witness ==
    /\ status = "active"
    /\ exit_cause = "kernel_driver"
    /\ main_pc = "exited"
    /\ ~constructed

\* main() has given up on an interface that came with a not-found reason:
\* nothing was constructed or registered, and no loop was entered.
GivenUpOnInterface ==
    /\ main_pc = "exited"
    /\ exit_cause = "not_found"
    /\ diag_input = "none"
    /\ ~self_dev_intf
    /\ ~constructed
    /\ modules = <<>>
    /\ pc = "idle"
    /\ dispose_calls = 0

\* C11, as stated: whenever the interface that was looked up carries a
\* not-found reason, main() has given up: no USB connector was constructed,
\* no module was registered and no loop was entered.
C11_NotFoundIsFatal ==
    (dev_intf.present /\ dev_intf.not_found_reason) => GivenUpOnInterface

\* C11, amended: a not-found reason is fatal at start-up when the interface
\* was asked for with --usb-modem; with --adb and --adb-wsl2 main() goes on
\* with the adb connector it already has and constructs no USB connector.
C11_NotFoundIsFatalForUsbModem ==
    (dev_intf.present /\ dev_intf.not_found_reason) =>
        IF args.input = "usb_modem"
        THEN GivenUpOnInterface
        ELSE /\ diag_input \in {"AdbConnector", "AdbWsl2Connector"}
             /\ ~self_dev_intf
             /\ exit_cause # "not_found"

C11_Witness ==
    /\ args.input = "usb_modem"
    /\ dev_intf.present
    /\ dev_intf.not_found_reason
    /\ main_pc = "exited"

RunEntered == main_pc \in {"run", "finally"} \/ exit_cause \in RunOutcomes

\* module is registered on the input.
IsRegistered(module) == \E i \in 1..Len(modules) : modules[i] = module

\* C19: run() is entered with at least one module registered, and with the
\* command line interface or the EFS shell registered only alone; once run()
\* has ended, in whatever way, and main() is left, dispose() has been called.
C19_RunWithModulesThenDispose ==
    /\ RunEntered =>
        /\ modules # <<>>
        /\ \A m \in {"CommandLineInterface", "EfsShell"} :
                IsRegistered(m) => modules = <<m>>
    /\ (RunEntered /\ main_pc = "exited") => dispose_calls = 1
    /\ dispose_calls <= 1

C19_Witness ==
    /\ modules = <<"CommandLineInterface">>
    /\ exit_cause = "run_raised"
    /\ main_pc = "exited"
    /\ dispose_calls = 1

\* A step in which send_request is called.
SendStep == requests' # requests

\* The steps of read_loop.
ReaderNext ==
    \/ read_loop_read_failed
    \/ read_loop_read_nothing
    \/ read_loop_unavailable
    \/ read_loop_decapsulate
    \/ dispatch_received_diag_packet
    \/ \E c \in Chunks : read_loop_read(c)

\* C13: send_request, called at any point of read_loop or from on_packet,
\* leaves read_loop where it is, with its buffer, its log of packets and the
\* state of run() untouched; read_loop, while it runs, always has a step to
\* take; and the packets dispatched are those of the buffers decoded,
\* whatever was sent.
C13_SendDoesNotDisturbReader ==
    /\ [][SendStep => UNCHANGED <<reader_vars, main_pc>>]_vars
    /\ [](main_pc = "run" /\ pc \in {"accumulate", "dispatch"} =>
            ENABLED ReaderNext)
    /\ [](\A k \in 1..Len(on_packet_calls) :
            on_packet_calls[k] = PacketOf(Returned[k].payload))

\* C13 witness: send_request was called from on_packet, and read_loop has
\* gone on to dispatch a second packet.
C13_Witness ==
    /\ \E i \in 1..Len(requests) : requests[i].reentrant
    /\ Len(on_packet_calls) >= 2

\* frame is message with every trailer and escape byte replaced by the
\* escape byte and the byte XORed with the mask, followed by the trailer.
RECURSIVE EncodesMessage(_, _)
EncodesMessage(frame, message) ==
    IF message = <<>> THEN frame = <<TRAILER_CHAR>>
    ELSE IF NeedsEscape(Head(message))
    THEN /\ Len(frame) >= 2
         /\ frame[1] = ESCAPE_CHAR
         /\ ~NeedsEscape(frame[2])
         /\ XorMask(frame[2]) = Head(message)
         /\ EncodesMessage(SubSeq(frame, 3, Len(frame)), Tail(message))
    ELSE /\ Len(frame) >= 1
         /\ frame[1] = Head(message)
         /\ EncodesMessage(Tail(frame), Tail(message))

\* The trailer byte is the last byte of frame and no other.
TrailerOnlyLast(frame) ==
    /\ EndsWith(frame, TRAILER_CHAR)
    /\ \A i \in 1..(Len(frame) - 1) : frame[i] # TRAILER_CHAR

\* C14: every frame send_request writes has the trailer byte as its last
\* byte and nowhere else, and is the type byte and the payload with each
\* trailer or escape byte replaced by the escape byte and a byte that, XORed
\* with the mask, gives the byte back.
C14_WrittenFrameIsEscaped ==
    \A i \in 1..Len(written) :
        /\ TrailerOnlyLast(written[i])
        /\ EncodesMessage(written[i],
                <<requests[i].type>> \o requests[i].payload)

\* C14 witness: a request whose type byte and payload need escaping was
\* written.
C14_Witness ==
    /\ Len(written) = 1
    /\ requests[1].type = ESCAPE_CHAR
    /\ requests[1].payload = <<TRAILER_CHAR, 1>>

\* s holds neither the trailer nor the escape byte.
NoSpecialByte(s) == \A i \in 1..Len(s) : ~NeedsEscape(s[i])

\* C15: the frame of a request whose payload holds neither the trailer nor
\* the escape byte, read back and decoded in strict mode, gives the type
\* byte and the payload of the request.
C15_RoundTrip ==
    (requests # <<>> /\ NoSpecialByte(requests[1].payload)) =>
        /\ \A k \in 1..Len(decode_calls) :
                /\ decode_calls[k].payload = written[1]
                /\ decode_calls[k].strict
                /\ ~decode_calls[k].raised
        /\ pc = "dispatch" =>
                DecodedPacket(unframed_message) =
                    [type |-> requests[1].type, payload |-> requests[1].payload]
        /\ \A k \in 1..Len(on_packet_calls) :
                on_packet_calls[k] =
                    [type |-> requests[1].type, payload |-> requests[1].payload]

\* C15 witness: a request with an escaped type byte was read back and
\* dispatched.
C15_Witness ==
    /\ Len(on_packet_calls) = 1
    /\ requests[1].type = TRAILER_CHAR
    /\ requests[1].payload = <<1, TRAILER_CHAR - ESCAPE_MASK>>

\* The bytes read that no hdlc_decapsulate call has been given yet.
Pending == IF pc = "dispatch" THEN <<>> ELSE raw_payload

\* C16: when the first hdlc_decapsulate call, a strict one, has raised, its
\* buffer went to no module, read_loop went on reading, and the buffers
\* decoded and the packets dispatched since are made of the bytes read after
\* that buffer.
C16_RejectedFirstBufferIsDiscarded ==
    (decode_calls # <<>> /\ decode_calls[1].raised) =>
        LET first == decode_calls[1].payload
            later == Tail(decode_calls)
        IN  /\ decode_calls[1].strict
            /\ SubSeq(stream, 1, Len(first)) = first
            /\ SubSeq(stream, Len(first) + 1, Len(stream)) =
                    DecodedBytes(later) \o Pending
            /\ Len(on_packet_calls) <= Len(later)
            /\ \A k \in 1..Len(on_packet_calls) :
                    on_packet_calls[k] = PacketOf(later[k].payload)
            /\ (later = <<>> /\ raw_payload = <<>> /\ read_failures = 0) =>
                    (main_pc = "run" /\ pc = "accumulate")

\* C16 witness: the first buffer was rejected, and a later one dispatched.
C16_Witness ==
    /\ decode_calls # <<>>
    /\ decode_calls[1].raised
    /\ Len(on_packet_calls) = 1

\* C17: every buffer given to hdlc_decapsulate ends with the trailer byte,
\* and the buffers, in order, followed by the bytes not yet decoded, are the
\* bytes read, each once and in the order read.
C17_BuffersPartitionTheStream ==
    /\ \A k \in 1..Len(decode_calls) :
            EndsWith(decode_calls[k].payload, TRAILER_CHAR)
    /\ stream = DecodedBytes(decode_calls) \o Pending

\* C17 witness: two buffers were decoded, the first made of two chunks, and
\* more bytes are waiting.
C17_Witness ==
    /\ Len(decode_calls) = 2
    /\ Len(first_chunk) < Len(decode_calls[1].payload)
    /\ Pending # <<>>

\* C18: a send_request call, whether the write succeeds or fails, leaves
\* received_first_packet and the buffer of read_loop as they were.
C18_SendLeavesFlagAndBuffer ==
    [][SendStep =>
            /\ received_first_packet' = received_first_packet
            /\ raw_payload' = raw_payload]_vars

\* C18 witness: a request was written while no buffer had been decoded and
\* read_loop was filling its buffer, and the flag is still unset.
C18_Witness ==
    /\ Len(written) = 1
    /\ ~received_first_packet
    /\ decode_calls = <<>>
    /\ raw_payload # <<>>
    /\ main_pc = "run"

====
